---- MODULE Spec2Model ----
(***************************************************************************)
(* Model of InfluxDB_pve_firewall.py: generate_sql_from_pvefw_log reads a  *)
(* Proxmox firewall log line by line and writes one CREATE TABLE statement *)
(* followed by one INSERT statement per line it manages to parse.          *)
(*                                                                         *)
(* Text is modelled as a sequence of atoms.  An atom is a run of           *)
(* characters that the program's regular expression, its splits and its    *)
(* replacements never cut in two:                                          *)
(*   ws      one whitespace character                                      *)
(*   marker  the substring PVEFW-HOST-IN                                   *)
(*   w       a non-empty run of word characters (\w)                       *)
(*   p       one punctuation character (neither \s nor \w)                 *)
(*   date    a token of shape \d{2}/\w{3}/\d{4}:\d{2}:\d{2}:\d{2}          *)
(*   off     a token of shape [+-]\d{4}                                    *)
(*   dt      the text strftime('%Y-%m-%d %H:%M:%S') produces               *)
(***************************************************************************)
EXTENDS Integers, Sequences, FiniteSets, TLC

VARIABLES input_exists, input, pc, i, clean_line, out, console

vars == <<input_exists, input, pc, i, clean_line, out, console>>

----------------------------------------------------------------------------
(* Atoms *)

WS == [k |-> "ws", v |-> " "]
MARKER == [k |-> "marker", v |-> "PVEFW-HOST-IN"]
W(s) == [k |-> "w", v |-> s]
P(s) == [k |-> "p", v |-> s]
EQ == P("=")
COLON == P(":")
QUOTE == P("'")
Date(d, mon, y, h, mi, s) ==
    [k |-> "date", d |-> d, mon |-> mon, y |-> y, h |-> h, mi |-> mi, s |-> s]
Off(sign, hh, mm) == [k |-> "off", sign |-> sign, hh |-> hh, mm |-> mm]

IsSpace(a) == a.k = "ws"
IsWord(a) == a.k = "w"

----------------------------------------------------------------------------
(* Python string and dict primitives the converter uses *)

\* str.lower() on the words the model's vocabulary contains.
LowerTable ==
    [s \in {"IN", "PHYSIN", "PHYSOUT", "MAC", "SRC", "DST", "LEN", "TOS",
            "PREC", "TTL", "ID", "PROTO", "SPT", "DPT", "WINDOW", "RES",
            "SYN", "URGP", "ACK", "PSH", "RST", "FIN", "TYPE", "CODE",
            "OUT", "A", "X", "LOG_TIMESTAMP", "Dec", "Feb", "Apr", "Xyz",
            "PVEFW-HOST-IN"} |->
       CASE s = "IN" -> "in" [] s = "PHYSIN" -> "physin"
         [] s = "PHYSOUT" -> "physout" [] s = "MAC" -> "mac"
         [] s = "SRC" -> "src" [] s = "DST" -> "dst" [] s = "LEN" -> "len"
         [] s = "TOS" -> "tos" [] s = "PREC" -> "prec" [] s = "TTL" -> "ttl"
         [] s = "ID" -> "id" [] s = "PROTO" -> "proto" [] s = "SPT" -> "spt"
         [] s = "DPT" -> "dpt" [] s = "WINDOW" -> "window"
         [] s = "RES" -> "res" [] s = "SYN" -> "syn" [] s = "URGP" -> "urgp"
         [] s = "ACK" -> "ack" [] s = "PSH" -> "psh" [] s = "RST" -> "rst"
         [] s = "FIN" -> "fin" [] s = "TYPE" -> "type" [] s = "CODE" -> "code"
         [] s = "OUT" -> "out" [] s = "A" -> "a" [] s = "X" -> "x"
         [] s = "LOG_TIMESTAMP" -> "log_timestamp"
         [] s = "Dec" -> "dec" [] s = "Feb" -> "feb" [] s = "Apr" -> "apr"
         [] s = "Xyz" -> "xyz" [] s = "PVEFW-HOST-IN" -> "pvefw-host-in"]

LowerStr(s) == IF s \in DOMAIN LowerTable THEN LowerTable[s] ELSE s

\* text.lower()
Lower(text) ==
    [j \in 1..Len(text) |->
        IF text[j].k \in {"w", "marker"}
        THEN [text[j] EXCEPT !.v = LowerStr(text[j].v)]
        ELSE text[j]]

\* text.strip(): leading and trailing whitespace removed.
RECURSIVE LStrip(_)
LStrip(text) ==
    IF text # <<>> /\ IsSpace(Head(text)) THEN LStrip(Tail(text)) ELSE text

RECURSIVE RStrip(_)
RStrip(text) ==
    IF text # <<>> /\ IsSpace(text[Len(text)])
    THEN RStrip(SubSeq(text, 1, Len(text) - 1))
    ELSE text

Strip(text) == RStrip(LStrip(text))

\* Index of the first atom of text equal to a, 0 when there is none.
Find(text, a) ==
    IF \E j \in 1..Len(text) : text[j] = a
    THEN CHOOSE j \in 1..Len(text) :
            text[j] = a /\ \A m \in 1..(j - 1) : text[m] # a
    ELSE 0

\* text.split(sep, 1): at most one cut, at the first occurrence of sep.
SplitOnce(text, sep) ==
    LET p == Find(text, sep) IN
    IF p = 0 THEN <<text>>
    ELSE <<SubSeq(text, 1, p - 1), SubSeq(text, p + 1, Len(text))>>

\* text.split(): the maximal runs of non-whitespace, in order.
RECURSIVE SplitWs(_)
SplitWs(text) ==
    LET t == LStrip(text)
        p == Find(t, WS)
    IN  IF t = <<>> THEN <<>>
        ELSE IF p = 0 THEN <<t>>
        ELSE <<SubSeq(t, 1, p - 1)>> \o SplitWs(SubSeq(t, p + 1, Len(t)))

\* text.replace("'", "''")
RECURSIVE EscapeQuotes(_)
EscapeQuotes(text) ==
    IF text = <<>> THEN <<>>
    ELSE IF Head(text) = QUOTE
         THEN <<QUOTE, QUOTE>> \o EscapeQuotes(Tail(text))
         ELSE <<Head(text)>> \o EscapeQuotes(Tail(text))

\* A dict is the sequence of its <<key, value>> items in insertion order.
DictHas(d, key) == \E j \in 1..Len(d) : d[j][1] = key

DictGet(d, key) == d[CHOOSE j \in 1..Len(d) : d[j][1] = key][2]

\* d[key] = val: an existing key keeps its place, a new one goes last.
DictSet(d, key, val) ==
    IF DictHas(d, key)
    THEN [j \in 1..Len(d) |-> IF d[j][1] = key THEN <<key, val>> ELSE d[j]]
    ELSE Append(d, <<key, val>>)

\* d.update(items), also dict(items) when d is empty.
RECURSIVE DictUpdate(_, _)
DictUpdate(d, items) ==
    IF items = <<>> THEN d
    ELSE DictUpdate(DictSet(d, Head(items)[1], Head(items)[2]), Tail(items))

----------------------------------------------------------------------------
(* The header pattern *)

NonSpaceKinds == {"marker", "w", "p", "date", "off", "dt", "none"}
WordKinds == {"w"}

\* Length of the longest run of atoms of the given kinds starting at from.
RECURSIVE RunLen(_, _, _)
RunLen(text, from, kinds) ==
    IF from <= Len(text) /\ text[from].k \in kinds
    THEN 1 + RunLen(text, from + 1, kinds)
    ELSE 0

NoMatch == [matched |-> FALSE]

\* re.match of
\*   (?P<pvefw_chain>\S+)\s(?P<log_timestamp>DATE\s[signs]\d{4})\s
\*   (?P<action>\w+):\s(?P<kv_pairs>.*)
\* at the start of text.  No atom but a date or an off atom has the shape of
\* the date or of the offset.
MatchHeader(text, signs) ==
    LET n == RunLen(text, 1, NonSpaceKinds)
        a == n + 6
        m == RunLen(text, a, WordKinds)
    IN  IF /\ n >= 1
           /\ m >= 1
           /\ Len(text) >= a + m + 1
           /\ text[n + 1] = WS
           /\ text[n + 2].k = "date"
           /\ text[n + 3] = WS
           /\ text[n + 4].k = "off"
           /\ text[n + 4].sign \in signs
           /\ text[n + 5] = WS
           /\ text[a + m] = COLON
           /\ text[a + m + 1] = WS
        THEN [matched |-> TRUE,
              pvefw_chain |-> SubSeq(text, 1, n),
              log_timestamp |-> SubSeq(text, n + 2, n + 4),
              action |-> SubSeq(text, a, a + m - 1),
              kv_pairs |-> SubSeq(text, a + m + 2, Len(text))]
        ELSE NoMatch

\* The signs the pattern accepts in front of the four offset digits.
OffsetSigns == {"-"}

log_pattern(text) == MatchHeader(text, OffsetSigns)

----------------------------------------------------------------------------
(* datetime.strptime(..., '%d/%b/%Y:%H:%M:%S %z') and strftime *)

MonthNum ==
    [s \in {"jan", "feb", "mar", "apr", "may", "jun",
            "jul", "aug", "sep", "oct", "nov", "dec"} |->
       CASE s = "jan" -> 1 [] s = "feb" -> 2 [] s = "mar" -> 3
         [] s = "apr" -> 4 [] s = "may" -> 5 [] s = "jun" -> 6
         [] s = "jul" -> 7 [] s = "aug" -> 8 [] s = "sep" -> 9
         [] s = "oct" -> 10 [] s = "nov" -> 11 [] s = "dec" -> 12]

IsLeap(y) == (y % 4 = 0 /\ y % 100 # 0) \/ y % 400 = 0

DaysInMonth(mn, y) ==
    IF mn = 2 THEN (IF IsLeap(y) THEN 29 ELSE 28)
    ELSE IF mn \in {4, 6, 9, 11} THEN 30 ELSE 31

ValidDate(d) ==
    /\ LowerStr(d.mon) \in DOMAIN MonthNum
    /\ d.y \in 1..9999
    /\ d.d \in 1..DaysInMonth(MonthNum[LowerStr(d.mon)], d.y)
    /\ d.h \in 0..23
    /\ d.mi \in 0..59
    /\ d.s \in 0..59

\* %z: [+-]HHMM with minutes below 60 and the offset strictly inside a day.
ValidOff(o) == o.hh \in 0..23 /\ o.mm \in 0..59

\* strptime raises ValueError unless the whole text is date, whitespace,
\* offset and both name real values.
StrptimeOk(text) ==
    /\ Len(text) >= 3
    /\ text[1].k = "date"
    /\ text[Len(text)].k = "off"
    /\ \A j \in 2..(Len(text) - 1) : text[j] = WS
    /\ ValidDate(text[1])
    /\ ValidOff(text[Len(text)])

\* dt_obj.strftime('%Y-%m-%d %H:%M:%S'): the fields as parsed, the offset
\* is not applied.
Strftime(text) ==
    LET d == text[1] IN
    <<[k |-> "dt", Y |-> d.y, m |-> MonthNum[LowerStr(d.mon)], d |-> d.d,
       H |-> d.h, M |-> d.mi, S |-> d.s]>>

PyNone == <<[k |-> "none", v |-> "None"]>>

\* str(val)
PyStr(val) == IF val = PyNone THEN <<W("None")>> ELSE val

----------------------------------------------------------------------------
(* The column catalog and the CREATE TABLE statement *)

Key(s) == <<W(s)>>

all_columns ==
    <<"pvefw_chain", "log_timestamp", "action", "IN", "PHYSIN", "PHYSOUT",
      "MAC", "SRC", "DST", "LEN", "TOS", "PREC", "TTL", "ID", "PROTO", "SPT",
      "DPT", "WINDOW", "RES", "SYN", "URGP", "ACK", "PSH", "RST", "FIN",
      "TYPE", "CODE">>

column_types ==
    [c \in {"id"} \cup {all_columns[j] : j \in 1..Len(all_columns)} |->
       CASE c = "id" -> "INT AUTO_INCREMENT PRIMARY KEY"
         [] c = "pvefw_chain" -> "VARCHAR(50)"
         [] c = "log_timestamp" -> "DATETIME"
         [] c \in {"action", "IN", "PHYSIN", "PHYSOUT"} -> "VARCHAR(20)"
         [] c = "MAC" -> "VARCHAR(50)"
         [] c \in {"SRC", "DST"} -> "VARCHAR(45)"
         [] c \in {"TOS", "PREC", "PROTO", "RES"} -> "VARCHAR(10)"
         [] c \in {"SYN", "ACK", "PSH", "RST", "FIN"} -> "BOOLEAN"
         [] OTHER -> "INT"]

fixed_columns == <<"pvefw_chain", "log_timestamp", "action">>

InSeq(x, seq) == \E j \in 1..Len(seq) : seq[j] = x

ColumnDef(col) ==
    [name |-> Lower(Key(col)),
     type |-> IF col \in DOMAIN column_types THEN column_types[col]
              ELSE "VARCHAR(255)"]

NotFixed(col) == ~InSeq(col, fixed_columns)

\* The columns of the CREATE TABLE statement, in the order written.
CreateColumns ==
    LET rest == SelectSeq(all_columns, NotFixed) IN
    <<[name |-> Key("id"), type |-> column_types["id"]]>>
    \o [j \in 1..Len(fixed_columns) |-> ColumnDef(fixed_columns[j])]
    \o [j \in 1..Len(rest) |-> ColumnDef(rest[j])]
    \o <<[name |-> Key("raw_log"), type |-> "TEXT"]>>

table_name == "pve_firewall_logs"

\* Everything written before the first line is read.
SchemaText ==
    <<[stmt |-> "COMMENT",
       text |-> "Auto-generated CREATE TABLE statement for PVE Firewall logs"],
      [stmt |-> "CREATE", table |-> table_name, cols |-> CreateColumns],
      [stmt |-> "COMMENT", text |-> "DML to insert data"]>>

----------------------------------------------------------------------------
(* One line: normalisation, parsing, coercion, serialisation *)

\* clean_line: line.strip().split('PVEFW-HOST-IN', 1)[-1] with the marker
\* put in front of it.
CleanLine(line) ==
    LET parts == SplitOnce(Strip(line), MARKER) IN
    <<MARKER>> \o parts[Len(parts)]

\* pair.split('=', 1) for pair in kv_pairs_str.split()
Pairs(kv_pairs_str) ==
    LET toks == SplitWs(kv_pairs_str) IN
    [j \in 1..Len(toks) |-> SplitOnce(toks[j], EQ)]

\* dict(...) raises ValueError when an element is not a pair.
KvValueError(kv_pairs_str) ==
    LET ps == Pairs(kv_pairs_str) IN \E j \in 1..Len(ps) : Len(ps[j]) # 2

\* match.groupdict() after data.pop('kv_pairs')
GroupDict(match) ==
    <<<<Key("pvefw_chain"), match.pvefw_chain>>,
      <<Key("log_timestamp"), match.log_timestamp>>,
      <<Key("action"), match.action>>>>

\* data.update(kv_pairs)
UpdateData(data, kv_pairs_str) ==
    DictUpdate(data, DictUpdate(<<>>, Pairs(kv_pairs_str)))

\* ConvertTimestamp with "except ValueError: pass": a token that cannot be
\* reparsed is left as it was read.
ConvertTimestampKeep(data) ==
    LET ts == DictGet(data, Key("log_timestamp")) IN
    DictSet(data, Key("log_timestamp"),
            IF StrptimeOk(ts) THEN Strftime(ts) ELSE ts)

\* The try/except around strptime and strftime.
ConvertTimestamp(data) ==
    LET ts == DictGet(data, Key("log_timestamp")) IN
    DictSet(data, Key("log_timestamp"),
            IF StrptimeOk(ts) THEN Strftime(ts) ELSE PyNone)

FLAGS == <<"SYN", "ACK", "PSH", "RST", "FIN">>

RECURSIVE CoerceFlags(_, _)
CoerceFlags(data, flags) ==
    IF flags = <<>> THEN data
    ELSE CoerceFlags(IF DictHas(data, Key(Head(flags)))
                     THEN DictSet(data, Key(Head(flags)), Key("1"))
                     ELSE data,
                     Tail(flags))

\* The record of a line whose header matched and whose tail parsed.
Record(match) ==
    CoerceFlags(ConvertTimestamp(UpdateData(GroupDict(match), match.kv_pairs)),
                FLAGS)

\* InsertStatement with the raw line written without doubling its quotes.
InsertStatementRawUnescaped(line, data) ==
    [stmt |-> "INSERT",
     table |-> table_name,
     cols |-> <<Key("raw_log")>> \o [j \in 1..Len(data) |-> Lower(data[j][1])],
     vals |-> <<Strip(line)>>
              \o [j \in 1..Len(data) |-> EscapeQuotes(PyStr(data[j][2]))]]

\* The INSERT statement for a record.
InsertStatement(line, data) ==
    [stmt |-> "INSERT",
     table |-> table_name,
     cols |-> <<Key("raw_log")>> \o [j \in 1..Len(data) |-> Lower(data[j][1])],
     vals |-> <<EscapeQuotes(Strip(line))>>
              \o [j \in 1..Len(data) |-> EscapeQuotes(PyStr(data[j][2]))]]

----------------------------------------------------------------------------
(* Input files *)

MaxLines == 2
MaxTail == 2

RECURSIVE JoinWs(_)
JoinWs(parts) ==
    IF parts = <<>> THEN <<>>
    ELSE IF Len(parts) = 1 THEN parts[1]
    ELSE parts[1] \o <<WS>> \o JoinWs(Tail(parts))

Header(chain, date, off, action) ==
    chain \o <<WS, date, WS, off, WS>> \o action \o <<COLON, WS>>

GoodDate == Date(25, "Dec", 2024, 10, 0, 0)
Dates ==
    {GoodDate,
     Date(25, "dec", 2024, 10, 0, 0),
     Date(29, "Feb", 2024, 23, 59, 59),
     Date(29, "Feb", 2023, 23, 59, 59),
     Date(31, "Apr", 2024, 10, 0, 0),
     Date(25, "Xyz", 2024, 10, 0, 0),
     Date(0, "Dec", 2024, 10, 0, 0),
     Date(25, "Dec", 2024, 24, 0, 0)}

GoodOff == Off("-", 5, 0)
Offs == {GoodOff, Off("+", 0, 0), Off("+", 5, 30), Off("-", 5, 60),
         Off("-", 24, 0)}

Chains == {<<MARKER>>, <<MARKER, W("PUT")>>, <<W("FORWARD")>>}

Drop == <<W("DROP")>>

FlagNames == {FLAGS[j] : j \in 1..Len(FLAGS)}

TailTokens ==
    {<<W(f)>> : f \in FlagNames}
    \cup {<<W(f), EQ, W("0")>> : f \in FlagNames}
    \cup {<<W("IN"), EQ, W("eth0")>>,
          <<W("IN"), EQ, W("it"), QUOTE, W("s")>>,
          <<W("OUT"), EQ>>,
          <<W("A"), EQ, W("b"), EQ, W("c")>>,
          <<W("syn"), EQ, W("0")>>,
          <<W("action"), EQ, W("ACCEPT")>>,
          <<W("pvefw_chain"), EQ, W("X")>>,
          <<W("log_timestamp"), EQ, GoodDate, GoodOff>>,
          <<W("LOG_TIMESTAMP"), EQ, W("X")>>}

Tails ==
    UNION {{JoinWs(f) : f \in [1..n -> TailTokens]} : n \in 1..MaxTail}

PlainTail == <<W("IN"), EQ, W("eth0")>>

\* Every date and offset, on every chain, with three tails.
HeaderFamily ==
    {Header(c, d, o, Drop) \o t :
        c \in Chains, d \in Dates, o \in Offs,
        t \in {PlainTail, <<W("SYN")>>,
               <<W("log_timestamp"), EQ, GoodDate, GoodOff>>}}

\* Every tail of at most MaxTail tokens, after a good and a bad date.
TailFamily ==
    {Header(<<MARKER>>, d, GoodOff, Drop) \o t :
        d \in {GoodDate, Date(0, "Dec", 2024, 10, 0, 0)}, t \in Tails}

Bodies ==
    {Header(<<MARKER>>, GoodDate, GoodOff, Drop) \o PlainTail,
     Header(<<MARKER>>, GoodDate, GoodOff, Drop) \o <<W("SYN")>>,
     Header(<<W("FORWARD")>>, GoodDate, GoodOff, Drop) \o PlainTail,
     Header(<<MARKER>>, GoodDate, GoodOff, Drop),
     <<MARKER, WS, WS, GoodDate, WS, GoodOff, WS, W("DROP"), COLON, WS>>
        \o PlainTail,
     <<MARKER, WS, GoodDate, WS, GoodOff, WS, W("DROP"), WS>> \o PlainTail,
     <<MARKER, WS, W("DROP"), COLON, WS>> \o PlainTail,
     <<W("garbage")>>,
     <<>>}

Prefixes ==
    {<<>>, <<WS>>, <<W("kernel"), COLON, WS>>,
     <<W("it"), QUOTE, W("s"), WS>>, <<MARKER, WS>>}

\* Text in front of and whitespace behind well-formed and malformed lines.
PrefixFamily ==
    {p \o b \o s : p \in Prefixes, b \in Bodies, s \in {<<>>, <<WS>>}}

CoreLines ==
    {Header(<<MARKER>>, GoodDate, GoodOff, Drop) \o PlainTail,
     <<W("it"), QUOTE, W("s"), WS>>
        \o Header(<<MARKER>>, GoodDate, GoodOff, <<W("ACCEPT")>>)
        \o <<W("SYN"), EQ, W("0")>>,
     <<WS>> \o Header(<<MARKER>>, Date(25, "Xyz", 2024, 10, 0, 0), GoodOff,
                      Drop) \o PlainTail,
     Header(<<MARKER>>, GoodDate, Off("+", 0, 0), Drop) \o PlainTail,
     Header(<<MARKER>>, GoodDate, GoodOff, Drop) \o <<W("SYN")>>,
     <<W("garbage")>>}

\* Files of up to MaxLines core lines, and one-line files of every family.
Files ==
    UNION {[1..n -> CoreLines] : n \in 0..MaxLines}
    \cup {<<l>> : l \in HeaderFamily \cup TailFamily \cup PrefixFamily}

----------------------------------------------------------------------------
(* The run *)

Init ==
    /\ input_exists \in BOOLEAN
    /\ input \in (IF input_exists THEN Files ELSE {<<>>})
    /\ pc = "start"
    /\ i = 0
    /\ clean_line = <<>>
    /\ out = <<>>
    /\ console = <<>>

Say(msg, arg) == [msg |-> msg, arg |-> arg]

\* open(input_file, 'r') raises FileNotFoundError: nothing is written.
OpenFails ==
    /\ pc = "start"
    /\ ~input_exists
    /\ pc' = "failed"
    /\ console' = Append(console, Say("Error: The file was not found.", <<>>))
    /\ UNCHANGED <<input_exists, input, i, clean_line, out>>

\* Both files open and the schema is written.
WriteSchema ==
    /\ pc = "start"
    /\ input_exists
    /\ pc' = "loop"
    /\ out' = out \o SchemaText
    /\ console' = Append(console, Say("Reading from ... and writing to ...", <<>>))
    /\ UNCHANGED <<input_exists, input, i, clean_line>>

Reading == pc = "loop" /\ i < Len(input)
CurLine == input[i + 1]

\* The header pattern does not match: warn and continue.
SkipMalformed ==
    /\ Reading
    /\ ~log_pattern(CleanLine(CurLine)).matched
    /\ clean_line' = CleanLine(CurLine)
    /\ console' = Append(console, Say("Warning: Skipping malformed line",
                                      Strip(CurLine)))
    /\ i' = i + 1
    /\ UNCHANGED <<input_exists, input, pc, out>>

\* SkipKeyValue with the row written before the tail is found unparseable:
\* a partial row holding the raw line only.
SkipKeyValuePartialRow ==
    /\ Reading
    /\ log_pattern(CleanLine(CurLine)).matched
    /\ KvValueError(log_pattern(CleanLine(CurLine)).kv_pairs)
    /\ clean_line' = CleanLine(CurLine)
    /\ console' = Append(console,
                         Say("Warning: Could not parse key-value pairs in line",
                             Strip(CurLine)))
    /\ out' = Append(out, [stmt |-> "INSERT", table |-> table_name,
                           cols |-> <<Key("raw_log")>>,
                           vals |-> <<EscapeQuotes(Strip(CurLine))>>])
    /\ i' = i + 1
    /\ UNCHANGED <<input_exists, input, pc>>

\* The key-value tail does not parse: warn and continue.
SkipKeyValue ==
    /\ Reading
    /\ log_pattern(CleanLine(CurLine)).matched
    /\ KvValueError(log_pattern(CleanLine(CurLine)).kv_pairs)
    /\ clean_line' = CleanLine(CurLine)
    /\ console' = Append(console,
                         Say("Warning: Could not parse key-value pairs in line",
                             Strip(CurLine)))
    /\ i' = i + 1
    /\ UNCHANGED <<input_exists, input, pc, out>>

\* EmitInsert with the statement put at the head of the output instead of
\* its end.
EmitInsertFirst ==
    /\ Reading
    /\ log_pattern(CleanLine(CurLine)).matched
    /\ ~KvValueError(log_pattern(CleanLine(CurLine)).kv_pairs)
    /\ clean_line' = CleanLine(CurLine)
    /\ out' = <<InsertStatement(CurLine,
                                Record(log_pattern(CleanLine(CurLine))))>> \o out
    /\ i' = i + 1
    /\ UNCHANGED <<input_exists, input, pc, console>>

\* The line parses: its INSERT statement is written.
EmitInsert ==
    /\ Reading
    /\ log_pattern(CleanLine(CurLine)).matched
    /\ ~KvValueError(log_pattern(CleanLine(CurLine)).kv_pairs)
    /\ clean_line' = CleanLine(CurLine)
    /\ out' = Append(out, InsertStatement(CurLine,
                                          Record(log_pattern(CleanLine(CurLine)))))
    /\ i' = i + 1
    /\ UNCHANGED <<input_exists, input, pc, console>>

\* The input is exhausted.
Finish ==
    /\ pc = "loop"
    /\ i = Len(input)
    /\ pc' = "done"
    /\ console' = Append(console, Say("Successfully generated SQL file.", <<>>))
    /\ UNCHANGED <<input_exists, input, i, clean_line, out>>

Next ==
    \/ OpenFails
    \/ WriteSchema
    \/ SkipMalformed
    \/ SkipKeyValue
    \/ EmitInsert
    \/ Finish

Spec == Init /\ [][Next]_vars

----------------------------------------------------------------------------
(* Vocabulary of the properties *)

IsInsert(st) == st.stmt = "INSERT"
IsCreate(st) == st.stmt = "CREATE"
Inserts(o) == SelectSeq(o, IsInsert)

\* The header of a line matches the pattern.
HeaderOk(line) == log_pattern(CleanLine(line)).matched

\* The tokens of the key-value tail of a line whose header matches.
TailTokensOf(line) == SplitWs(log_pattern(CleanLine(line)).kv_pairs)

\* Some token of the tail has no "=".
TokenWithoutEq(line) ==
    \E j \in 1..Len(TailTokensOf(line)) : Find(TailTokensOf(line)[j], EQ) = 0

Skipped(line) == ~HeaderOk(line) \/ TokenWithoutEq(line)
Parsed(line) == HeaderOk(line) /\ ~TokenWithoutEq(line)

\* The key of a tail token: the text before its first "=", the whole token
\* when it has none.
TokenKey(tok) == IF Find(tok, EQ) = 0 THEN tok ELSE SubSeq(tok, 1, Find(tok, EQ) - 1)
TokenValue(tok) == SubSeq(tok, Find(tok, EQ) + 1, Len(tok))

KeyInTail(line, key) ==
    \E j \in 1..Len(TailTokensOf(line)) : TokenKey(TailTokensOf(line)[j]) = key

HasColumn(ins, col, val) ==
    \E j \in 1..Len(ins.cols) : ins.cols[j] = col /\ ins.vals[j] = val

NoColumn(ins, col) == \A j \in 1..Len(ins.cols) : ins.cols[j] # col

\* This step wrote exactly one statement, an INSERT.
WroteInsert ==
    /\ Len(out') = Len(out) + 1
    /\ SubSeq(out', 1, Len(out)) = out
    /\ IsInsert(out'[Len(out')])

NewInsert == out'[Len(out')]

HeaderKeys == {Key("pvefw_chain"), Key("log_timestamp"), Key("action")}
FlagKeys == {Key(f) : f \in FlagNames}

----------------------------------------------------------------------------
(* C1 *)

\* C1: for each of SYN, ACK, PSH, RST, FIN and every line whose header is
\* well-formed: a flag present in the tail, also as a bare token without "=",
\* gives an INSERT with the lower-cased flag column set to '1'; a flag absent
\* from the tail gives no such column.
C1_FlagsPresentOrOmitted ==
    [][(Reading /\ HeaderOk(CurLine)) =>
         \A f \in FlagNames :
            IF KeyInTail(CurLine, Key(f))
            THEN WroteInsert /\ HasColumn(NewInsert, Lower(Key(f)), Key("1"))
            ELSE WroteInsert => NoColumn(NewInsert, Lower(Key(f)))]_vars

----------------------------------------------------------------------------
(* C2 *)

\* The header of the line has the shape of the pattern with an offset of
\* either sign, its date, time and offset are real, and its tail parses and
\* holds no log_timestamp key.
SignedHeader(line) == MatchHeader(CleanLine(line), {"+", "-"})

ValidStampEitherSign(line) ==
    /\ SignedHeader(line).matched
    /\ StrptimeOk(SignedHeader(line).log_timestamp)
    /\ \A tok \in {SplitWs(SignedHeader(line).kv_pairs)[j] :
                      j \in 1..Len(SplitWs(SignedHeader(line).kv_pairs))} :
          Find(tok, EQ) # 0 /\ TokenKey(tok) # Key("log_timestamp")

\* C2: a line whose header carries a valid date-time with an offset of
\* either sign is parsed, and its log_timestamp is the same wall-clock date
\* and time, the offset dropped and not applied.
C2_TimestampEitherSign ==
    [][(Reading /\ ValidStampEitherSign(CurLine)) =>
         /\ WroteInsert
         /\ HasColumn(NewInsert, Key("log_timestamp"),
                      Strftime(SignedHeader(CurLine).log_timestamp))]_vars

----------------------------------------------------------------------------
(* C3 *)

FirstToken(text) == SplitWs(text)[1]

\* C3: the text matched against the header pattern is the line from the
\* first marker onward when the marker occurs, and the line itself when it
\* does not, so that the chain of a record is then the line's first token.
\* (Surrounding whitespace is taken as already removed.)
C3_Normalization ==
    [][Reading =>
         LET line == Strip(CurLine)
             p == Find(line, MARKER)
         IN  /\ clean_line' = IF p # 0 THEN SubSeq(line, p, Len(line)) ELSE line
             /\ (p = 0 /\ WroteInsert) =>
                   HasColumn(NewInsert, Key("pvefw_chain"),
                             EscapeQuotes(FirstToken(line)))]_vars

----------------------------------------------------------------------------
(* C4 *)

\* C4: a skipped line (header mismatch, or a tail token without "=") leaves
\* the output as it was, raises nothing, and the lines after it are still
\* processed: the loop goes on to the next line, and a finished run has
\* read every line and written one INSERT per parsed line.
C4_SkipLeavesOutput ==
    /\ [][(Reading /\ Skipped(CurLine)) =>
            (out' = out /\ pc' = "loop" /\ i' = i + 1)]_vars
    /\ [](pc = "done" =>
            /\ i = Len(input)
            /\ Len(Inserts(out)) = Len(SelectSeq(input, Parsed)))

C4_Witness ==
    /\ pc = "done"
    /\ \E j \in 1..(Len(input) - 1) :
          /\ Skipped(input[j])
          /\ Parsed(input[j + 1])
          /\ Len(Inserts(out)) = 1
          /\ Inserts(out)[1].vals[1] = EscapeQuotes(Strip(input[j + 1]))

----------------------------------------------------------------------------
(* C5 *)

\* C5: when the input file exists, the finished output holds exactly one
\* CREATE TABLE, before every INSERT, and exactly one INSERT per parsed line
\* and none for any other, in the order of their source lines.
C5_OneCreateThenInserts ==
    pc = "done" =>
       LET creates == {j \in 1..Len(out) : IsCreate(out[j])}
           inserts == {j \in 1..Len(out) : IsInsert(out[j])}
           parsed == SelectSeq(input, Parsed)
       IN  /\ input_exists
           /\ Cardinality(creates) = 1
           /\ \A c \in creates, j \in inserts : c < j
           /\ Len(Inserts(out)) = Len(parsed)
           /\ \A j \in 1..Len(parsed) :
                 Inserts(out)[j].vals[1] = EscapeQuotes(Strip(parsed[j]))

C5_Witness ==
    /\ pc = "done"
    /\ Len(input) = 2
    /\ input[1] # input[2]
    /\ Len(Inserts(out)) = 2

----------------------------------------------------------------------------
(* C6 *)

----------------------------------------------------------------------------
(* C7 *)

\* The date-time token of the header is not a real date-time.
BadStamp(line) == ~StrptimeOk(log_pattern(CleanLine(line)).log_timestamp)

\* C7: a line whose header matches and whose tail parses, but whose
\* date-time token is not a real date-time, still gives exactly one INSERT;
\* the log_timestamp column of the header (the third, after raw_log and
\* pvefw_chain) is present and holds the string 'None'; the chain, the
\* action and every tail field are written as usual.
C7_BadStampStillEmitted ==
    [][(Reading /\ Parsed(CurLine) /\ BadStamp(CurLine)) =>
         /\ WroteInsert
         /\ NewInsert.cols[3] = Key("log_timestamp")
         /\ NewInsert.vals[3] = Key("None")
         /\ \A h \in {"pvefw_chain", "action"} :
               ~KeyInTail(CurLine, Key(h)) =>
                  HasColumn(NewInsert, Key(h),
                            EscapeQuotes(log_pattern(CleanLine(CurLine))[h]))
         /\ \A j \in 1..Len(TailTokensOf(CurLine)) :
               LET tok == TailTokensOf(CurLine)[j]
                   last == \A n \in (j + 1)..Len(TailTokensOf(CurLine)) :
                              TokenKey(TailTokensOf(CurLine)[n]) # TokenKey(tok)
               IN  (last /\ TokenKey(tok) # Key("log_timestamp")) =>
                      HasColumn(NewInsert, Lower(TokenKey(tok)),
                                IF TokenKey(tok) \in FlagKeys THEN Key("1")
                                ELSE EscapeQuotes(TokenValue(tok)))]_vars

C7_Witness ==
    /\ i >= 1
    /\ Find(input[i], MARKER) = 1
    /\ Parsed(input[i])
    /\ BadStamp(input[i])
    /\ IsInsert(out[Len(out)])
    /\ HasColumn(out[Len(out)], Key("log_timestamp"), Key("None"))
    /\ HasColumn(out[Len(out)], Key("in"), Key("eth0"))

----------------------------------------------------------------------------
(* C8 *)

\* C8: the column names of the CREATE TABLE statement are pairwise distinct.
C8_CreateColumnsDistinct ==
    \A n \in 1..Len(out) :
       IsCreate(out[n]) =>
          \A a, b \in 1..Len(out[n].cols) :
             a # b => out[n].cols[a].name # out[n].cols[b].name

----------------------------------------------------------------------------
(* C9 *)

DeclaredColumns ==
    UNION {{out[n].cols[c].name : c \in 1..Len(out[n].cols)} :
              n \in {m \in 1..Len(out) : IsCreate(out[m])}}

\* C9: every column an INSERT names is declared by the CREATE TABLE of the
\* same run.
C9_InsertColumnsDeclared ==
    \A n \in 1..Len(out) :
       IsInsert(out[n]) =>
          \A c \in 1..Len(out[n].cols) : out[n].cols[c] \in DeclaredColumns

----------------------------------------------------------------------------
(* C10 *)

\* C10: the values of pvefw_chain, log_timestamp and action in an INSERT
\* come from the header tokens of the line alone, whatever keys the tail
\* holds.
C10_HeaderColumnsFromHeader ==
    [][(Reading /\ WroteInsert) =>
         LET m == log_pattern(CleanLine(CurLine)) IN
         \A j \in 1..Len(NewInsert.cols) :
            /\ NewInsert.cols[j] = Key("pvefw_chain") =>
                  NewInsert.vals[j] = EscapeQuotes(m.pvefw_chain)
            /\ NewInsert.cols[j] = Key("action") =>
                  NewInsert.vals[j] = EscapeQuotes(m.action)
            /\ NewInsert.cols[j] = Key("log_timestamp") =>
                  NewInsert.vals[j] =
                     IF StrptimeOk(m.log_timestamp)
                     THEN Strftime(m.log_timestamp) ELSE Key("None")]_vars

====
